---- MODULE Spec2Model ----
(***************************************************************************)
(* Session pool, command registry and execution orchestrator of the        *)
(* Script Runner extension (scriptExecutor.ts, runScript.ts and the        *)
(* getScriptOutput tool), as a state machine.                              *)
(*                                                                         *)
(* Strings that the code only compares or concatenates are modelled as     *)
(* sequences: a path is a sequence of one-character strings, a terminal    *)
(* name is a sequence of its parts, an output text is the sequence of the  *)
(* chunks appended to it.                                                  *)
(***************************************************************************)
EXTENDS Integers, Sequences, FiniteSets, TLC

VARIABLES
  platform,         \* process.platform
  terminals,        \* host side: every terminal created so far, by terminal id
  activeTerminals,  \* Map<string, Terminal>: its keys in insertion order
  busyTerminals,    \* Set<string>
  commands,         \* Map<string, Command>, by command id
  executions,       \* host side: the output stream of every execution, by command id
  files,            \* script files present in the temp directory
  calls,            \* the runScript calls: position, parameters, locals, result
  interrupts,       \* the sendText('\x03') calls made so far, in order
  waiters,          \* getOutput calls suspended on a completionPromise
  got,              \* by command id, the last two results getOutput returned
  built             \* the last buildScriptCommand call: arguments and result

vars == <<platform, terminals, activeTerminals, busyTerminals, commands,
          executions, files, calls, interrupts, waiters, got, built>>

(***************************************************************************)
(* Bounds of the model.                                                    *)
(***************************************************************************)
MaxCalls == 2
\* Calls and chunks per stream where output is followed chunk by chunk.
MaxOutCalls == 1
MaxChunks == 1

\* The longest script path buildScriptCommand is given.
MaxLen == 3

CallIds == 1..MaxCalls

\* The falsy values of the code: undefined and the empty string.
None == 0
NoDir == <<>>

(***************************************************************************)
(* Inputs.                                                                 *)
(***************************************************************************)
\* ShellType values a caller passes.
Shells == {"pwsh", "wsl"}

\* Working directories a caller requests, and the ones the host reports.
RequestDirs == {NoDir, <<"/", "a", "/">>, <<"/", "B">>}
HostDirs == {<<"/", "a">>, <<"/", "b">>}

\* A call through RunScriptTool.invoke hands executeScript five arguments:
\* keepScript and workingDirectory keep executeScript's defaults.  A direct
\* caller of executeScript passes all seven.
ToolInputs ==
  [viaTool: {TRUE}, shell: Shells, workingDirectory: {NoDir},
   hasTimeout: BOOLEAN, keepScript: BOOLEAN, isBackground: BOOLEAN,
   closeOnTimeout: BOOLEAN]
DirectInputs ==
  [viaTool: {FALSE}, shell: Shells, workingDirectory: RequestDirs,
   hasTimeout: BOOLEAN, keepScript: BOOLEAN, isBackground: BOOLEAN,
   closeOnTimeout: BOOLEAN]
CallInputs == ToolInputs \cup DirectInputs

\* The inputs each specification draws from: the parameters its claims are
\* about vary, the others keep their defaults.
PoolInputs ==
  {inp \in ToolInputs :
     /\ ~inp.keepScript /\ ~inp.closeOnTimeout
     /\ (inp.isBackground => ~inp.hasTimeout)}
CwdInputs ==
  {inp \in DirectInputs :
     /\ inp.shell = "pwsh" /\ ~inp.keepScript /\ ~inp.closeOnTimeout
     /\ ~inp.isBackground /\ ~inp.hasTimeout}
FileInputs ==
  {inp \in ToolInputs :
     /\ inp.shell = "pwsh" /\ inp.workingDirectory = NoDir /\ ~inp.closeOnTimeout
     /\ (inp.isBackground => ~inp.hasTimeout)}
RemovalInputs ==
  {inp \in ToolInputs :
     /\ inp.shell = "pwsh" /\ ~inp.keepScript
     /\ (inp.isBackground => ~inp.hasTimeout /\ ~inp.closeOnTimeout)
     /\ (inp.closeOnTimeout => inp.hasTimeout)}
FailInputs ==
  {inp \in ToolInputs :
     /\ inp.shell = "pwsh" /\ ~inp.keepScript /\ ~inp.closeOnTimeout
     /\ (inp.isBackground => ~inp.hasTimeout)}
OutInputs ==
  {inp \in ToolInputs :
     /\ inp.shell = "pwsh" /\ inp.keepScript /\ ~inp.closeOnTimeout
     /\ (inp.isBackground = ~inp.hasTimeout)}

NoInput ==
  [viaTool |-> FALSE, shell |-> "pwsh", workingDirectory |-> NoDir,
   hasTimeout |-> FALSE, keepScript |-> FALSE, isBackground |-> FALSE,
   closeOnTimeout |-> FALSE]

(***************************************************************************)
(* Pure helpers.                                                           *)
(***************************************************************************)
Min(S) == CHOOSE x \in S : \A y \in S : x <= y

StartsWith(s, p) == Len(p) <= Len(s) /\ SubSeq(s, 1, Len(p)) = p

\* String.prototype.toLowerCase on the characters the model uses.
toLowerCase(ch) ==
  CASE ch = "A" -> "a"
    [] ch = "B" -> "b"
    [] OTHER -> ch

\* p.replace(/\\/g, '/')
ReplaceBackslashes(p) ==
  [k \in 1..Len(p) |-> IF p[k] = "\\" THEN "/" ELSE p[k]]

\* s.replace(/\/$/, ''): one trailing slash is removed
StripTrailingSlash(p) ==
  IF Len(p) > 0 /\ p[Len(p)] = "/" THEN SubSeq(p, 1, Len(p) - 1) ELSE p

normalizePath(p) ==
  LET normalized == StripTrailingSlash(ReplaceBackslashes(p))
  IN IF platform = "win32"
       THEN [k \in 1..Len(normalized) |-> toLowerCase(normalized[k])]
       ELSE normalized

\* `Script Runner (${effectiveShellType})`
TerminalName(shell) == <<"Script Runner", shell>>

\* The k-th chunk the stream of command c yields.
Chunk(c, k) == <<c, k>>

\* The text made of the first n chunks of command c.
Chunks(c, n) == [k \in 1..n |-> Chunk(c, k)]

\* generateScriptPath: one fresh path per call.
ScriptPath(i) == i

(***************************************************************************)
(* Session pool.                                                           *)
(***************************************************************************)
\* terminal.shellIntegration?.cwd?.fsPath
TerminalCwd(t) ==
  IF terminals[t].shellIntegration THEN terminals[t].cwd ELSE NoDir

\* A search that takes an idle terminal of any name.
findIdleTerminalAnyName(terminalNamePrefix, workingDirectory) ==
  LET idx == {k \in 1..Len(activeTerminals) :
                /\ activeTerminals[k] \notin busyTerminals
                /\ (workingDirectory # NoDir =>
                      /\ TerminalCwd(activeTerminals[k]) # NoDir
                      /\ normalizePath(TerminalCwd(activeTerminals[k]))
                           = normalizePath(workingDirectory))}
  IN IF idx = {} THEN None ELSE activeTerminals[Min(idx)]

findIdleTerminalAnyCwd(terminalNamePrefix, workingDirectory) ==
  LET idx == {k \in 1..Len(activeTerminals) :
                /\ StartsWith(terminals[activeTerminals[k]].name, terminalNamePrefix)
                /\ activeTerminals[k] \notin busyTerminals}
  IN IF idx = {} THEN None ELSE activeTerminals[Min(idx)]

findIdleTerminalAnyBusy(terminalNamePrefix, workingDirectory) ==
  LET idx == {k \in 1..Len(activeTerminals) :
                /\ StartsWith(terminals[activeTerminals[k]].name, terminalNamePrefix)
                /\ (workingDirectory # NoDir =>
                      /\ TerminalCwd(activeTerminals[k]) # NoDir
                      /\ normalizePath(TerminalCwd(activeTerminals[k]))
                           = normalizePath(workingDirectory))}
  IN IF idx = {} THEN None ELSE activeTerminals[Min(idx)]

\* The first terminal of the map, in insertion order, that matches the prefix,
\* is not busy and, when a working directory is asked for, has that cwd.
findIdleTerminal(terminalNamePrefix, workingDirectory) ==
  LET idx == {k \in 1..Len(activeTerminals) :
                /\ StartsWith(terminals[activeTerminals[k]].name, terminalNamePrefix)
                /\ activeTerminals[k] \notin busyTerminals
                /\ (workingDirectory # NoDir =>
                      /\ TerminalCwd(activeTerminals[k]) # NoDir
                      /\ normalizePath(TerminalCwd(activeTerminals[k]))
                           = normalizePath(workingDirectory))}
  IN IF idx = {} THEN None ELSE activeTerminals[Min(idx)]

\* generateTerminalId: a fresh id.
generateTerminalId == Cardinality(DOMAIN terminals) + 1

\* generateCommandId when the eight hexadecimal digits it keeps of a random
\* UUID are digits no earlier command got: the next id.
generateCommandId == Cardinality(DOMAIN commands) + 1

\* activeTerminals.delete(terminalId) that deletes nothing.
MapKeep(m, t) == m

\* A delete that empties the map.
MapClear(m, t) == <<>>

\* activeTerminals.delete(terminalId)
MapDelete(m, t) == SelectSeq(m, LAMBDA x : x # t)

(***************************************************************************)
(* Initial state: empty maps, no call made.                                *)
(***************************************************************************)
NoResult == [kind |-> "none"]

\* No result of getOutput yet.
NoGot ==
  [waitForCompletion |-> FALSE, completedAtCall |-> FALSE, kind |-> "none",
   status |-> "none", output |-> <<>>]

\* No buildScriptCommand call yet.
NoBuilt ==
  [called |-> FALSE, scriptPath |-> <<>>, shellType |-> "unknown",
   executingFromShell |-> "unknown", command |-> <<>>]

Init ==
  /\ platform = "linux"
  /\ terminals = <<>>
  /\ activeTerminals = <<>>
  /\ busyTerminals = {}
  /\ commands = <<>>
  /\ executions = <<>>
  /\ files = {}
  /\ calls = [i \in CallIds |->
               [pc |-> "new", input |-> NoInput, terminalId |-> None,
                isNewTerminal |-> FALSE, commandId |-> None, output |-> <<>>,
                result |-> NoResult]]
  /\ interrupts = <<>>
  /\ waiters = {}
  /\ got = [c \in CallIds |-> [prev |-> NoGot, last |-> NoGot]]
  /\ built = NoBuilt

(***************************************************************************)
(* executeInTerminal.                                                      *)
(***************************************************************************)
\* What RunScriptTool.invoke hands to executeScript as keepScript: the tool
\* passes five arguments, so executeScript's default applies.
PassedKeepScript(inp) == IF inp.viaTool THEN FALSE ELSE inp.keepScript

\* A Command object that is born completed.
NewCommandCompleted(terminalId, inp, scriptPath) ==
  [terminalId |-> terminalId, closeOnTimeout |-> inp.closeOnTimeout,
   output |-> <<>>, completed |-> TRUE, scriptPath |-> scriptPath,
   keepScript |-> IF inp.viaTool THEN FALSE ELSE inp.keepScript]

\* The Command object of lines 281-292.
NewCommand(terminalId, inp, scriptPath) ==
  [terminalId |-> terminalId, closeOnTimeout |-> inp.closeOnTimeout,
   output |-> <<>>, completed |-> FALSE, scriptPath |-> scriptPath,
   keepScript |-> PassedKeepScript(inp)]

\* RunScriptTool.invoke after executeScript has returned: the tool removes the
\* script file itself unless keepScript or isBackground is set.
ToolCleanup(inp, scriptPath, fs) ==
  IF inp.viaTool /\ ~inp.keepScript /\ ~inp.isBackground
    THEN fs \ {scriptPath}
    ELSE fs

\* A background result that carries no command id.
BackgroundResultNoId(commandId) ==
  [kind |-> "result", stdout |-> <<>>, truncated |-> FALSE, exitCode |-> 0,
   commandId |-> None, isBackground |-> TRUE]

\* A ScriptResult.  stdout is the text collected; the bracketed notice the
\* timeout branch appends to it is the field truncated.
BackgroundResult(commandId) ==
  [kind |-> "result", stdout |-> <<>>, truncated |-> FALSE, exitCode |-> 0,
   commandId |-> commandId, isBackground |-> TRUE]

\* busyTerminals.add(terminalId) that adds nothing.
BusyAddNothing(busy, terminalId) == busy

\* Line 261: busyTerminals.add(terminalId)
BusyAdd(busy, terminalId) == busy \cup {terminalId}

\* busyTerminals.delete(terminalId) that deletes nothing.
BusyDeleteNothing(busy, terminalId) == busy

\* Lines 254, 353, 361: busyTerminals.delete(terminalId)
BusyDelete(busy, terminalId) == busy \ {terminalId}

\* A call that never returns at dispatch.
ReturnsNever(inp) == FALSE

\* Line 315: whether the call returns right after the command is registered.
ReturnsAtDispatch(inp) == inp.isBackground

\* An exit code that ignores closeOnTimeout.
TimeoutExitCodeZero(closeOnTimeout) == 0

\* Line 365: exitCode: closeOnTimeout ? 1 : 0
TimeoutExitCode(closeOnTimeout) == IF closeOnTimeout THEN 1 ELSE 0

\* The busy set a background call leaves behind when it returns.
BusyAfterBackground(busy, terminalId) == busy

\* commands.set(commandId, cmd) that drops every other entry.
RegistryReplace(m, commandId, cmd) == (commandId :> cmd)

\* Line 312: commands.set(commandId, cmd).  Map.set puts the entry under the
\* key, whatever the map held there.
RegistrySet(m, commandId, cmd) == (commandId :> cmd) @@ m

\* Lines 277-350 for call i, which holds terminal terminalId: the command is
\* executed and registered under the id that generateCommandId drew, the
\* accumulator is started; a background call returns, a foreground call
\* starts to collect.
Dispatch(i, inp, terminalId, isNewTerminal, busy, commandId) ==
  /\ commands' = RegistrySet(commands, commandId,
                             NewCommand(terminalId, inp, ScriptPath(i)))
  /\ executions' = (commandId :> [emitted |-> 0, state |-> "open", bgPos |-> 0])
                     @@ executions
  /\ IF ReturnsAtDispatch(inp)
       THEN /\ calls' = [calls EXCEPT ![i] =
                           [pc |-> "returned", input |-> inp,
                            terminalId |-> terminalId,
                            isNewTerminal |-> isNewTerminal,
                            commandId |-> commandId, output |-> <<>>,
                            result |-> BackgroundResult(commandId)]]
            /\ busyTerminals' = BusyAfterBackground(busy, terminalId)
       ELSE /\ calls' = [calls EXCEPT ![i] =
                           [pc |-> "collecting", input |-> inp,
                            terminalId |-> terminalId,
                            isNewTerminal |-> isNewTerminal,
                            commandId |-> commandId, output |-> <<>>,
                            result |-> NoResult]]
            /\ busyTerminals' = busy

\* A caller invokes the tool (or executeScript): the script file is written,
\* a terminal is found or created and marked busy.  Into an existing terminal
\* the command is dispatched in the same turn, under the id commandId; a new
\* terminal is waited for.
RunScriptAs(i, inp, commandId) ==
  /\ calls[i].pc = "new"
  /\ \A j \in CallIds : j < i => calls[j].pc # "new"
  /\ files' = files \cup {ScriptPath(i)}
  /\ LET existing == findIdleTerminal(TerminalName(inp.shell), inp.workingDirectory)
     IN IF existing # None
          THEN /\ Dispatch(i, inp, existing, FALSE,
                           BusyAdd(busyTerminals, existing), commandId)
               /\ UNCHANGED <<terminals, activeTerminals>>
          ELSE LET terminalId == generateTerminalId
               IN /\ terminals' = terminals @@
                       (terminalId :>
                          [name |-> TerminalName(inp.shell) \o <<terminalId>>,
                           shellIntegration |-> FALSE, cwd |-> NoDir,
                           closed |-> FALSE])
                  /\ activeTerminals' = Append(activeTerminals, terminalId)
                  /\ busyTerminals' = BusyAdd(busyTerminals, terminalId)
                  /\ calls' = [calls EXCEPT ![i] =
                                 [pc |-> "waitForShellIntegration", input |-> inp,
                                  terminalId |-> terminalId, isNewTerminal |-> TRUE,
                                  commandId |-> None, output |-> <<>>,
                                  result |-> NoResult]]
                  /\ UNCHANGED <<commands, executions>>
  /\ UNCHANGED <<platform, built, interrupts, waiters, got>>

\* The call with an id that no command was registered under before.
RunScript(i, inp) == RunScriptAs(i, inp, generateCommandId)

\* The host signals shell integration for the new terminal of call i, which
\* reports some working directory (or none); the call resumes and dispatches
\* under the id commandId.
ShellIntegrationChangedAs(i, cwd, commandId) ==
  /\ calls[i].pc = "waitForShellIntegration"
  /\ ~terminals[calls[i].terminalId].closed
  /\ terminals' = [terminals EXCEPT ![calls[i].terminalId] =
                     [@ EXCEPT !.shellIntegration = TRUE, !.cwd = cwd]]
  /\ Dispatch(i, calls[i].input, calls[i].terminalId, TRUE, busyTerminals,
              commandId)
  /\ UNCHANGED <<platform, built, activeTerminals, files, interrupts, waiters, got>>

ShellIntegrationChanged(i, cwd) ==
  ShellIntegrationChangedAs(i, cwd, generateCommandId)

(***************************************************************************)
(* Failures on the way to a dispatched command.                            *)
(***************************************************************************)
\* The result RunScriptTool.invoke builds in its catch block: "Error: ...".
ErrorResult == [kind |-> "error"]

\* No result: the operation ended by throwing.
Thrown == [kind |-> "thrown"]

\* How call i ends when an exception leaves executeScript: the tool's catch
\* block returns an error result, a direct caller gets the exception.
EndsByException(i, inp, terminalId, isNewTerminal) ==
  calls' = [calls EXCEPT ![i] =
              [pc |-> IF inp.viaTool THEN "returned" ELSE "threw",
               input |-> inp, terminalId |-> terminalId,
               isNewTerminal |-> isNewTerminal, commandId |-> None,
               output |-> <<>>,
               result |-> IF inp.viaTool THEN ErrorResult ELSE Thrown]]

\* Line 277 throws: no catch around it in executeInTerminal, so nothing
\* between the throw and the caller touches the busy set.
ExecuteCommandThrows(i, inp, terminalId, isNewTerminal, busy) ==
  /\ EndsByException(i, inp, terminalId, isNewTerminal)
  /\ busyTerminals' = busy
  /\ UNCHANGED <<commands, executions>>

\* getTempDir fails (mkdir): lines 73-74 of RunScriptTool.invoke precede its
\* try block, so the exception leaves invoke.
TempDirFails(i, inp) ==
  /\ calls[i].pc = "new"
  /\ \A j \in CallIds : j < i => calls[j].pc # "new"
  /\ inp.viaTool
  /\ calls' = [calls EXCEPT ![i] =
                 [pc |-> "threw", input |-> inp, terminalId |-> None,
                  isNewTerminal |-> FALSE, commandId |-> None, output |-> <<>>,
                  result |-> Thrown]]
  /\ UNCHANGED <<platform, built, terminals, activeTerminals, busyTerminals, commands,
                 executions, files, interrupts, waiters, got>>

\* writeScriptFile fails: inside the try block, the catch returns a result.
WriteScriptFails(i, inp) ==
  /\ calls[i].pc = "new"
  /\ \A j \in CallIds : j < i => calls[j].pc # "new"
  /\ inp.viaTool
  /\ calls' = [calls EXCEPT ![i] =
                 [pc |-> "returned", input |-> inp, terminalId |-> None,
                  isNewTerminal |-> FALSE, commandId |-> None, output |-> <<>>,
                  result |-> ErrorResult]]
  /\ UNCHANGED <<platform, built, terminals, activeTerminals, busyTerminals, commands,
                 executions, files, interrupts, waiters, got>>

\* A call finds an idle terminal, marks it busy, and the host rejects the
\* command.
RunScriptRejected(i, inp) ==
  /\ calls[i].pc = "new"
  /\ \A j \in CallIds : j < i => calls[j].pc # "new"
  /\ files' = files \cup {ScriptPath(i)}
  /\ LET existing == findIdleTerminal(TerminalName(inp.shell), inp.workingDirectory)
     IN /\ existing # None
        /\ ExecuteCommandThrows(i, inp, existing, FALSE,
                                BusyAdd(busyTerminals, existing))
  /\ UNCHANGED <<platform, built, terminals, activeTerminals, interrupts, waiters, got>>

\* Shell integration arrives for the new terminal of call i and the host
\* rejects the command.
ShellIntegrationChangedRejected(i, cwd) ==
  /\ calls[i].pc = "waitForShellIntegration"
  /\ ~terminals[calls[i].terminalId].closed
  /\ terminals' = [terminals EXCEPT ![calls[i].terminalId] =
                     [@ EXCEPT !.shellIntegration = TRUE, !.cwd = cwd]]
  /\ ExecuteCommandThrows(i, calls[i].input, calls[i].terminalId, TRUE,
                          busyTerminals)
  /\ UNCHANGED <<platform, built, activeTerminals, files, interrupts, waiters, got>>

(***************************************************************************)
(* The host: output streams, the shell's working directory, closing.       *)
(***************************************************************************)
StreamData(c) ==
  /\ c \in DOMAIN executions
  /\ executions[c].state = "open"
  /\ executions[c].emitted < MaxChunks
  /\ executions' = [executions EXCEPT ![c].emitted = @ + 1]
  /\ UNCHANGED <<platform, built, terminals, activeTerminals, busyTerminals, commands,
                 files, calls, interrupts, waiters, got>>

\* The stream ends, or errors.
StreamEnd(c, how) ==
  /\ c \in DOMAIN executions
  /\ executions[c].state = "open"
  /\ executions' = [executions EXCEPT ![c].state = how]
  /\ UNCHANGED <<platform, built, terminals, activeTerminals, busyTerminals, commands,
                 files, calls, interrupts, waiters, got>>

CwdChanged(t, cwd) ==
  /\ t \in DOMAIN terminals
  /\ ~terminals[t].closed
  /\ terminals[t].shellIntegration
  /\ terminals[t].cwd # cwd
  /\ terminals' = [terminals EXCEPT ![t].cwd = cwd]
  /\ UNCHANGED <<platform, built, activeTerminals, busyTerminals, commands, executions,
                 files, calls, interrupts, waiters, got>>

\* onDidCloseTerminal: the listener of lines 251-257.
CloseTerminal(t) ==
  /\ t \in DOMAIN terminals
  /\ ~terminals[t].closed
  /\ terminals' = [terminals EXCEPT ![t].closed = TRUE]
  /\ activeTerminals' = MapDelete(activeTerminals, t)
  /\ busyTerminals' = BusyDelete(busyTerminals, t)
  /\ UNCHANGED <<platform, built, commands, executions, files, calls, interrupts,
                 waiters, got>>

(***************************************************************************)
(* The background accumulator of a command (lines 296-311).                *)
(***************************************************************************)
\* cleanupScriptFile: unlink, errors swallowed.
cleanupScriptFile(path, fs) == fs \ {path}

AccumulatorNeverCleans(cmd) == FALSE

\* Whether the accumulator removes the script file when the command ends.
AccumulatorCleans(cmd) == cmd.scriptPath # None /\ ~cmd.keepScript

\* One turn of the loop of lines 299-301.
AccumulatorRead(c) ==
  /\ c \in DOMAIN commands
  /\ executions[c].bgPos < executions[c].emitted
  /\ commands' = [commands EXCEPT ![c].output =
                    Append(@, Chunk(c, executions[c].bgPos + 1))]
  /\ executions' = [executions EXCEPT ![c].bgPos = @ + 1]
  /\ UNCHANGED <<platform, built, terminals, activeTerminals, busyTerminals, files,
                 calls, interrupts, waiters, got>>

\* A reader that completes as soon as the stream has ended.
StreamOver(pos, execution) == execution.state # "open"

\* A reader that an error of the stream leaves waiting.
StreamEndedOnly(pos, execution) ==
  pos = execution.emitted /\ execution.state = "ended"

\* Whether a for-await loop at position pos leaves the stream: every chunk
\* was read and the stream has ended or errored.
StreamDrained(pos, execution) ==
  pos = execution.emitted /\ execution.state # "open"

AccumulatorFinish(c) ==
  /\ c \in DOMAIN commands
  /\ ~commands[c].completed
  /\ StreamDrained(executions[c].bgPos, executions[c])
  /\ commands' = [commands EXCEPT ![c].completed = TRUE]
  /\ files' = IF AccumulatorCleans(commands[c])
                THEN cleanupScriptFile(commands[c].scriptPath, files)
                ELSE files
  /\ UNCHANGED <<platform, built, terminals, activeTerminals, busyTerminals, executions,
                 calls, interrupts, waiters, got>>

(***************************************************************************)
(* The foreground branch (lines 325-375).                                  *)
(***************************************************************************)
ForegroundRead(i) ==
  /\ calls[i].pc = "collecting"
  /\ Len(calls[i].output) < executions[calls[i].commandId].emitted
  /\ calls' = [calls EXCEPT ![i].output =
                 Append(@, Chunk(calls[i].commandId, Len(@) + 1))]
  /\ UNCHANGED <<platform, built, terminals, activeTerminals, busyTerminals, commands,
                 executions, files, interrupts, waiters, got>>

\* outputPromise wins the race: 'complete' or 'error', one result for both.
ForegroundComplete(i) ==
  /\ calls[i].pc = "collecting"
  /\ StreamDrained(Len(calls[i].output), executions[calls[i].commandId])
  /\ busyTerminals' = BusyDelete(busyTerminals, calls[i].terminalId)
  /\ calls' = [calls EXCEPT ![i].pc = "returned",
                 ![i].result =
                   [kind |-> "result", stdout |-> calls[i].output,
                    truncated |-> FALSE, exitCode |-> 0,
                    commandId |-> calls[i].commandId, isBackground |-> FALSE]]
  /\ files' = ToolCleanup(calls[i].input, ScriptPath(i), files)
  /\ UNCHANGED <<platform, built, terminals, activeTerminals, commands, executions,
                 interrupts, waiters, got>>

\* A call that is not raced against any timer.
RacesNoTimeout(inp) == FALSE

\* Line 343: whether outputPromise is raced against a timer.
RacesTimeout(inp) == inp.hasTimeout

\* An interrupt sent whatever closeOnTimeout is.
SendsInterruptAlways(closeOnTimeout) == TRUE

\* Line 356: whether the timeout branch sends Ctrl+C into the terminal.
SendsInterrupt(closeOnTimeout) == closeOnTimeout

\* timeoutPromise wins the race: the session is released (line 353), then
\* the interrupt is sent (line 358) and the truncated result returned.
Timeout(i) ==
  /\ calls[i].pc = "collecting"
  /\ RacesTimeout(calls[i].input)
  /\ LET busy == BusyDelete(busyTerminals, calls[i].terminalId)
     IN /\ interrupts' =
             IF SendsInterrupt(calls[i].input.closeOnTimeout)
               THEN Append(interrupts,
                      [call |-> i, terminalId |-> calls[i].terminalId,
                       wasBusy |-> calls[i].terminalId \in busy])
               ELSE interrupts
        /\ busyTerminals' = busy
  /\ calls' = [calls EXCEPT ![i].pc = "returned",
                 ![i].result =
                   [kind |-> "result", stdout |-> calls[i].output,
                    truncated |-> TRUE,
                    exitCode |-> TimeoutExitCode(calls[i].input.closeOnTimeout),
                    commandId |-> calls[i].commandId, isBackground |-> FALSE]]
  /\ files' = ToolCleanup(calls[i].input, ScriptPath(i), files)
  /\ UNCHANGED <<platform, built, terminals, activeTerminals, commands, executions,
                 waiters, got>>

(***************************************************************************)
(* GetScriptOutputTool.invoke (the commandId version).                     *)
(***************************************************************************)
\* getCommand / getTerminalById
getCommand(commandId) ==
  IF commandId \in DOMAIN commands THEN commandId ELSE None

\* A lookup that finds every terminal id.
getTerminalByIdAlways(id) == id

getTerminalById(id) ==
  IF \E k \in 1..Len(activeTerminals) : activeTerminals[k] = id THEN id ELSE None

AwaitsNothing(waitForCompletion, completed) == FALSE

\* Line 115: whether the call suspends on the command's completionPromise.
AwaitsCompletion(waitForCompletion, completed) ==
  waitForCompletion /\ ~completed

\* Lines 119-130: the text the tool returns for a command.  completedAtCall
\* records whether the command had completed when getOutput was called.
OutputResult(commandId, waitForCompletion, completedAtCall) ==
  [waitForCompletion |-> waitForCompletion, completedAtCall |-> completedAtCall,
   kind |-> "output",
   status |-> IF commands[commandId].completed THEN "completed" ELSE "running",
   output |-> commands[commandId].output]

\* A not-found path that answers with an empty output.
EmptyOutput(waitForCompletion, completedAtCall, kind) ==
  [waitForCompletion |-> waitForCompletion, completedAtCall |-> completedAtCall,
   kind |-> "output", status |-> "running", output |-> <<>>]

NotFoundResult(waitForCompletion, completedAtCall, kind) ==
  [waitForCompletion |-> waitForCompletion, completedAtCall |-> completedAtCall,
   kind |-> kind, status |-> "none", output |-> <<>>]

\* The result r is returned for commandId.
Returned(commandId, r) ==
  [got EXCEPT ![commandId] = [prev |-> @.last, last |-> r]]

\* A call of getOutput up to its return or its suspension.
GetOutput(commandId, waitForCompletion) ==
  /\ IF getCommand(commandId) = None
       THEN /\ got' = Returned(commandId,
                        NotFoundResult(waitForCompletion, FALSE, "commandNotFound"))
            /\ UNCHANGED waiters
       ELSE IF getTerminalById(commands[commandId].terminalId) = None
         THEN /\ got' = Returned(commandId,
                          NotFoundResult(waitForCompletion,
                                         commands[commandId].completed,
                                         "terminalNotFound"))
              /\ UNCHANGED waiters
         ELSE IF AwaitsCompletion(waitForCompletion, commands[commandId].completed)
           THEN /\ waiters' = waiters \cup {commandId}
                /\ UNCHANGED got
           ELSE /\ got' = Returned(commandId,
                            OutputResult(commandId, waitForCompletion,
                                         commands[commandId].completed))
                /\ UNCHANGED waiters
  /\ UNCHANGED <<platform, built, terminals, activeTerminals, busyTerminals, commands,
                 executions, files, calls, interrupts>>

\* The completionPromise a call awaits has resolved: the call returns.
GetOutputResume(commandId) ==
  /\ commandId \in waiters
  /\ commands[commandId].completed
  /\ waiters' = waiters \ {commandId}
  /\ got' = Returned(commandId, OutputResult(commandId, TRUE, FALSE))
  /\ UNCHANGED <<platform, built, terminals, activeTerminals, busyTerminals, commands,
                 executions, files, calls, interrupts>>

\* The command ids callers hold: the ones returned in a result.
ReturnedCommandIds ==
  {calls[i].commandId : i \in {j \in CallIds : calls[j].pc = "returned"}}

(***************************************************************************)
(* Specifications.  Each draws the calls from the inputs its claims are    *)
(* about and lets the host do what those claims depend on.                 *)
(***************************************************************************)
\* The same start on either platform.
InitAnyPlatform ==
  /\ platform \in {"win32", "linux"}
  /\ terminals = <<>>
  /\ activeTerminals = <<>>
  /\ busyTerminals = {}
  /\ commands = <<>>
  /\ executions = <<>>
  /\ files = {}
  /\ calls = [i \in CallIds |->
               [pc |-> "new", input |-> NoInput, terminalId |-> None,
                isNewTerminal |-> FALSE, commandId |-> None, output |-> <<>>,
                result |-> NoResult]]
  /\ interrupts = <<>>
  /\ waiters = {}
  /\ got = [c \in CallIds |-> [prev |-> NoGot, last |-> NoGot]]
  /\ built = NoBuilt

\* The session pool: shells, background and timed calls, closing terminals.
Next ==
  \/ \E i \in CallIds, inp \in PoolInputs : RunScript(i, inp)
  \/ \E i \in CallIds : ShellIntegrationChanged(i, NoDir)
  \/ \E c \in CallIds : StreamEnd(c, "ended")
  \/ \E t \in CallIds : CloseTerminal(t)
  \/ \E c \in CallIds : AccumulatorFinish(c)
  \/ \E i \in CallIds : ForegroundComplete(i)
  \/ \E i \in CallIds : Timeout(i)

Spec == Init /\ [][Next]_vars

\* Working directories: requested ones, and what the host reports.
NextCwd ==
  \/ \E i \in CallIds, inp \in CwdInputs : RunScript(i, inp)
  \/ \E i \in CallIds, cwd \in HostDirs \cup {NoDir} : ShellIntegrationChanged(i, cwd)
  \/ \E t \in CallIds, cwd \in HostDirs \cup {NoDir} : CwdChanged(t, cwd)
  \/ \E c \in CallIds : StreamEnd(c, "ended")
  \/ \E c \in CallIds : AccumulatorFinish(c)
  \/ \E i \in CallIds : ForegroundComplete(i)

SpecCwd == InitAnyPlatform /\ [][NextCwd]_vars

\* Script files: the tool, keepScript, every mode, streams that end or error.
NextFiles ==
  \/ \E i \in CallIds, inp \in FileInputs : RunScript(i, inp)
  \/ \E i \in CallIds : ShellIntegrationChanged(i, NoDir)
  \/ \E c \in CallIds : StreamData(c)
  \/ \E c \in CallIds, how \in {"ended", "errored"} : StreamEnd(c, how)
  \/ \E c \in CallIds : AccumulatorRead(c)
  \/ \E c \in CallIds : AccumulatorFinish(c)
  \/ \E i \in CallIds : ForegroundRead(i)
  \/ \E i \in CallIds : ForegroundComplete(i)
  \/ \E i \in CallIds : Timeout(i)

SpecFiles == Init /\ [][NextFiles]_vars

\* Removal of the script file: calls made with keepScript = false, in every
\* mode, over streams that yield chunks and end or error.
NextRemoval ==
  \/ \E i \in 1..MaxOutCalls, inp \in RemovalInputs : RunScript(i, inp)
  \/ \E i \in CallIds : ShellIntegrationChanged(i, NoDir)
  \/ \E c \in CallIds : StreamData(c)
  \/ \E c \in CallIds, how \in {"ended", "errored"} : StreamEnd(c, how)
  \/ \E c \in CallIds : AccumulatorRead(c)
  \/ \E c \in CallIds : AccumulatorFinish(c)
  \/ \E i \in CallIds : ForegroundRead(i)
  \/ \E i \in CallIds : ForegroundComplete(i)
  \/ \E i \in CallIds : Timeout(i)

\* The event loop runs a continuation that is ready: an accumulator with a
\* chunk to read reads it, an accumulator whose stream has ended finishes.
FairAccumulator ==
  /\ \A c \in CallIds : WF_vars(AccumulatorRead(c))
  /\ \A c \in CallIds : WF_vars(AccumulatorFinish(c))

SpecRemoval == Init /\ [][NextRemoval]_vars /\ FairAccumulator

\* Output: chunks, both readers, getOutput on returned command ids, closing.
NextOut ==
  \/ \E i \in 1..MaxOutCalls, inp \in OutInputs : RunScript(i, inp)
  \/ \E i \in CallIds : ShellIntegrationChanged(i, NoDir)
  \/ \E c \in CallIds : StreamData(c)
  \/ \E c \in CallIds : StreamEnd(c, "ended")
  \/ \E t \in CallIds : CloseTerminal(t)
  \/ \E c \in CallIds : AccumulatorRead(c)
  \/ \E c \in CallIds : AccumulatorFinish(c)
  \/ \E i \in CallIds : ForegroundRead(i)
  \/ \E i \in CallIds : ForegroundComplete(i)
  \/ \E i \in CallIds : Timeout(i)
  \/ \E c \in ReturnedCommandIds : GetOutput(c, TRUE)
  \/ \E c \in CallIds : GetOutputResume(c)

SpecOut == Init /\ [][NextOut]_vars

\* Failures: a temp directory or a script file that cannot be written, a
\* host that rejects a command, closes a terminal or never signals shell
\* integration, streams that error.
NextFail ==
  \/ \E i \in CallIds, inp \in FailInputs : RunScript(i, inp)
  \/ \E i \in CallIds, inp \in FailInputs : RunScriptRejected(i, inp)
  \/ \E i \in CallIds, inp \in FailInputs : TempDirFails(i, inp)
  \/ \E i \in CallIds, inp \in FailInputs : WriteScriptFails(i, inp)
  \/ \E i \in CallIds : ShellIntegrationChanged(i, NoDir)
  \/ \E i \in CallIds : ShellIntegrationChangedRejected(i, NoDir)
  \/ \E c \in CallIds, how \in {"ended", "errored"} : StreamEnd(c, how)
  \/ \E t \in CallIds : CloseTerminal(t)
  \/ \E c \in CallIds : AccumulatorFinish(c)
  \/ \E i \in CallIds : ForegroundComplete(i)
  \/ \E i \in CallIds : Timeout(i)

\* The event loop runs a continuation that is ready; the host owes nothing:
\* it may never signal shell integration and a stream may never end.
FairContinuations ==
  /\ \A c \in CallIds : WF_vars(AccumulatorFinish(c))
  /\ \A i \in CallIds : WF_vars(ForegroundComplete(i))

SpecFail == Init /\ [][NextFail]_vars /\ FairContinuations

\* Lookups that miss: getOutput for command ids the registry does not hold,
\* beside calls that fill the pool, the busy set and the registry.
NextLookup ==
  \/ \E i \in 1..MaxOutCalls, inp \in FailInputs : RunScript(i, inp)
  \/ \E i \in CallIds : ShellIntegrationChanged(i, NoDir)
  \/ \E c \in CallIds : StreamEnd(c, "ended")
  \/ \E t \in CallIds : CloseTerminal(t)
  \/ \E c \in CallIds : AccumulatorFinish(c)
  \/ \E i \in CallIds : ForegroundComplete(i)
  \/ \E c \in CallIds \ DOMAIN commands, w \in BOOLEAN : GetOutput(c, w)

SpecLookup == Init /\ [][NextLookup]_vars

(***************************************************************************)
(* Properties.                                                             *)
(***************************************************************************)
\* The calls that hold terminal t: they acquired it and have not returned.
Holders(t) ==
  {i \in CallIds : /\ calls[i].terminalId = t
                   /\ calls[i].pc \in {"waitForShellIntegration", "collecting"}}

\* The commands of terminal t that have not completed.
Uncompleted(t) ==
  {c \in DOMAIN commands : commands[c].terminalId = t /\ ~commands[c].completed}

\* C1: a session is in the busy set exactly while a call that acquired it has
\* not yet returned (and the session is not closed); no session stays busy
\* once the acquiring call has returned.
C1_BusyIffHeld ==
  \A t \in DOMAIN terminals :
    t \in busyTerminals <=> (~terminals[t].closed /\ Holders(t) # {})

\* C2: once a background call has returned, the session it used is not busy
\* on its account.
C2_BackgroundReturnedNotBusy ==
  \A i \in CallIds :
    (/\ calls[i].pc = "returned"
     /\ calls[i].input.isBackground
     /\ Holders(calls[i].terminalId) = {})
      => calls[i].terminalId \notin busyTerminals

\* C3 as stated: at every moment a session has at most one command that was
\* dispatched and has not completed.
C3_AtMostOneUncompleted ==
  \A t \in DOMAIN terminals : Cardinality(Uncompleted(t)) <= 1

\* C3: at every moment a session is held by at most one call that has not
\* returned, so at most one command of a session is still awaited; a command
\* whose foreground wait timed out may still run beside the next one.
C3_AtMostOneHolder ==
  \A t \in DOMAIN terminals : Cardinality(Holders(t)) <= 1

\* A call collects in a session where the command of a timed-out call is
\* still running.
C3_Witness ==
  \E i \in CallIds : \E j \in CallIds :
    /\ calls[i].pc = "collecting"
    /\ calls[j].pc = "returned"
    /\ calls[j].result.truncated
    /\ calls[j].terminalId = calls[i].terminalId
    /\ executions[calls[j].commandId].state = "open"
    /\ Cardinality(Uncompleted(calls[i].terminalId)) = 2

\* C4: when a call with no working directory has returned, no command is in
\* flight and the session it used is not closed, the next call with the same
\* prefix and no working directory goes into that session and creates none.
C4_IdleSessionReused ==
  [][\A i \in CallIds : \A j \in CallIds :
       (/\ calls[i].pc = "new"
        /\ calls'[i].pc # "new"
        /\ calls[j].pc = "returned"
        /\ calls[j].input.shell = calls'[i].input.shell
        /\ calls[j].input.workingDirectory = NoDir
        /\ calls'[i].input.workingDirectory = NoDir
        /\ ~terminals[calls[j].terminalId].closed
        /\ \A c \in DOMAIN commands : commands[c].completed
        /\ \A k \in CallIds : calls[k].pc \in {"new", "returned"})
         => /\ calls'[i].terminalId = calls[j].terminalId
            /\ DOMAIN terminals' = DOMAIN terminals]_vars

IsPrefix(p, s) == StartsWith(s, p)

\* The results of getOutput kept for command c.
GotResults(c) == {got[c].prev, got[c].last} \ {NoGot}

\* C6 as stated: after a foreground call has timed out, every later
\* getOutput(commandId, waitForCompletion = true) returns the full output of
\* the command with status completed.
C6_WaitingGetOutputReturnsFull ==
  \A i \in CallIds :
    (calls[i].pc = "returned" /\ calls[i].result.truncated)
      => \A r \in GotResults(calls[i].commandId) :
           r.waitForCompletion
             => /\ r.kind = "output"
                /\ r.status = "completed"
                /\ r.output = Chunks(calls[i].commandId,
                                     executions[calls[i].commandId].emitted)

\* C6: the truncated result carries the command id and a prefix of the
\* output; a later getOutput(commandId, waitForCompletion = true) returns the
\* full output with status completed if the session is still in the pool when
\* it is called, and "terminal not found" only if the session was closed.
C6_WaitingGetOutputReturnsFullWhileLive ==
  \A i \in CallIds :
    (calls[i].pc = "returned" /\ calls[i].result.truncated)
      => LET c == calls[i].commandId
             full == Chunks(c, executions[c].emitted)
         IN /\ calls[i].result.commandId = c
            /\ c \in DOMAIN commands
            /\ IsPrefix(calls[i].result.stdout, full)
            /\ \A r \in GotResults(c) :
                 r.waitForCompletion
                   => IF r.kind = "output"
                        THEN r.status = "completed" /\ r.output = full
                        ELSE /\ r.kind = "terminalNotFound"
                             /\ terminals[commands[c].terminalId].closed

\* After a timeout that returned less, getOutput has returned the full output.
C6_Witness ==
  \E i \in CallIds :
    /\ calls[i].pc = "returned"
    /\ calls[i].result.truncated
    /\ got[calls[i].commandId].last.kind = "output"
    /\ got[calls[i].commandId].last.waitForCompletion
    /\ got[calls[i].commandId].last.status = "completed"
    /\ Len(got[calls[i].commandId].last.output) > Len(calls[i].result.stdout)

\* C7 as stated: two getOutput calls made for a command after it has
\* completed return the same output and status.
C7_GetOutputIdempotent ==
  \A c \in DOMAIN commands :
    (got[c].prev.completedAtCall /\ got[c].last.completedAtCall)
      => /\ got[c].last.output = got[c].prev.output
         /\ got[c].last.status = got[c].prev.status

\* C7: two getOutput calls made for a command after it has completed, both
\* while its session is in the pool, return the same output and the status
\* completed; a call made after completion returns anything else only when
\* the session has been closed, and then it is "terminal not found".
C7_GetOutputIdempotentWhileLive ==
  \A c \in DOMAIN commands :
    /\ (/\ got[c].prev.completedAtCall /\ got[c].prev.kind = "output"
        /\ got[c].last.completedAtCall /\ got[c].last.kind = "output")
         => /\ got[c].last.output = got[c].prev.output
            /\ got[c].last.status = "completed"
            /\ got[c].prev.status = "completed"
    /\ \A r \in GotResults(c) :
         (r.completedAtCall /\ r.kind # "output")
           => /\ r.kind = "terminalNotFound"
              /\ terminals[commands[c].terminalId].closed

\* Two calls made after completion have both returned a non-empty output.
C7_Witness ==
  \E c \in DOMAIN commands :
    /\ got[c].prev.completedAtCall /\ got[c].prev.kind = "output"
    /\ got[c].last.completedAtCall /\ got[c].last.kind = "output"
    /\ Len(got[c].last.output) > 0

\* C8: the script file of a call made with keepScript = true is never removed.
C8_KeepScriptNeverDeleted ==
  \A i \in CallIds :
    (calls[i].pc # "new" /\ calls[i].input.keepScript)
      => ScriptPath(i) \in files

\* C9: the script file of a call made with keepScript = false is not removed
\* before the command has completed.
C9_NotDeletedBeforeCompleted ==
  \A i \in CallIds :
    (calls[i].pc # "new" /\ ~calls[i].input.keepScript /\ ScriptPath(i) \notin files)
      => /\ calls[i].commandId # None
         /\ commands[calls[i].commandId].completed

\* C10: with keepScript = false, once the output stream of a command has ended
\* or errored, its script file is eventually removed.
C10_ScriptEventuallyRemoved ==
  \A i \in CallIds :
    (/\ calls[i].pc \in {"collecting", "returned"}
     /\ ~calls[i].input.keepScript
     /\ executions[calls[i].commandId].state # "open")
      ~> (ScriptPath(i) \notin files)

\* The stream of a background command has errored and its file is gone.
C10_Witness ==
  \E i \in CallIds :
    /\ calls[i].pc = "returned"
    /\ calls[i].input.isBackground
    /\ ~calls[i].input.keepScript
    /\ executions[calls[i].commandId].state = "errored"
    /\ commands[calls[i].commandId].completed
    /\ ScriptPath(i) \notin files

\* C11: a foreground call that timed out reports exitCode 1 exactly when
\* closeOnTimeout is set and 0 otherwise; a foreground call that completed
\* reports exitCode 0 whatever closeOnTimeout is.
C11_TimeoutExitCode ==
  \A i \in CallIds :
    (/\ calls[i].pc = "returned"
     /\ calls[i].result.kind = "result"
     /\ ~calls[i].result.isBackground)
      => calls[i].result.exitCode =
           IF calls[i].result.truncated /\ calls[i].input.closeOnTimeout
             THEN 1 ELSE 0

\* A call with closeOnTimeout has timed out and reports exitCode 1.
C11_Witness ==
  \E i \in CallIds :
    /\ calls[i].pc = "returned"
    /\ calls[i].input.closeOnTimeout
    /\ calls[i].result.truncated
    /\ calls[i].result.exitCode = 1

\* C12: a background call returns in the step that dispatches and registers
\* its command, before any chunk and before the stream ends; its result says
\* isBackground and carries a command id the registry already holds.
C12_BackgroundReturnsAtDispatch ==
  \A i \in CallIds :
    (calls[i].input.isBackground /\ calls[i].pc \notin {"new", "waitForShellIntegration"})
      => /\ calls[i].pc = "returned"
         /\ calls[i].result.isBackground
         /\ calls[i].result.commandId = calls[i].commandId
         /\ getCommand(calls[i].result.commandId) # None
         /\ commands[calls[i].commandId].terminalId = calls[i].terminalId

\* A background call has returned while its stream is open and has yielded
\* nothing, and its session is in the pool.
C12_Witness ==
  \E i \in CallIds :
    /\ calls[i].pc = "returned"
    /\ calls[i].result.isBackground
    /\ executions[calls[i].commandId].state = "open"
    /\ executions[calls[i].commandId].emitted = 0
    /\ getTerminalById(calls[i].terminalId) # None

\* C13: once a session is closed it stays closed and out of the pool:
\* getTerminalById finds nothing for its id, findIdleTerminal never returns
\* it, and no later call acquires it or dispatches a command into it.
C13_ClosedSessionGone ==
  /\ [](\A t \in DOMAIN terminals :
          terminals[t].closed
            => /\ getTerminalById(t) = None
               /\ \A shell \in Shells, wd \in RequestDirs :
                    findIdleTerminal(TerminalName(shell), wd) # t)
  /\ [][\A t \in DOMAIN terminals :
          terminals[t].closed
            => /\ terminals'[t].closed
               /\ \A c \in DOMAIN commands' \ DOMAIN commands :
                    commands'[c].terminalId # t
               /\ \A i \in CallIds :
                    calls'[i].terminalId = t => calls[i].terminalId = t]_vars

\* A session that served a call is closed, it would match the next call's
\* prefix and is not busy, and the lookup for that prefix finds nothing.
C13_Witness ==
  \E t \in DOMAIN terminals : \E j \in CallIds : \E i \in CallIds :
    /\ terminals[t].closed
    /\ t \notin busyTerminals
    /\ calls[j].pc = "returned"
    /\ calls[j].terminalId = t
    /\ calls[i].pc = "new"
    /\ findIdleTerminal(TerminalName(calls[j].input.shell), NoDir) = None
    /\ getTerminalById(t) = None

\* C14: a call does not wait for shell integration forever: if the host
\* never signals it, the call still leaves the wait.
C14_ReadinessWaitEnds ==
  \A i \in CallIds :
    (calls[i].pc = "waitForShellIntegration")
      ~> (calls[i].pc # "waitForShellIntegration")

\* C15: a foreground call that has ended, by a result, a timeout or an
\* exception at dispatch, has released its session: unless another call
\* holds it, the session is not in the busy set.
C15_ReleasedOnEveryExit ==
  \A i \in CallIds :
    (/\ calls[i].pc \in {"returned", "threw"}
     /\ ~calls[i].input.isBackground
     /\ calls[i].terminalId # None
     /\ Holders(calls[i].terminalId) = {})
      => calls[i].terminalId \notin busyTerminals

\* C16: no invocation of the tool ends by throwing.
C16_InvokeNeverThrows ==
  \A i \in CallIds : calls[i].input.viaTool => calls[i].pc # "threw"

\* C17: getOutput for a command id the registry does not hold returns the
\* command-not-found result, suspends nothing and changes neither the pool,
\* the busy set nor the registry.
C17_UnknownCommandIdNotFound ==
  [][\A c \in CallIds :
       (c \notin DOMAIN commands /\ got'[c] # got[c])
         => /\ got'[c].last.kind = "commandNotFound"
            /\ c \notin waiters'
            /\ UNCHANGED <<terminals, activeTerminals, busyTerminals, commands,
                           executions, files, calls>>]_vars

\* getOutput has returned not-found for an unregistered id while the pool,
\* the busy set and the registry are not empty.
C17_Witness ==
  \E c \in CallIds :
    /\ c \notin DOMAIN commands
    /\ got[c].last.kind = "commandNotFound"
    /\ got[c].last.waitForCompletion
    /\ busyTerminals # {}
    /\ Len(activeTerminals) > 0
    /\ DOMAIN commands # {}

\* C18: when a foreground call has returned a result that is not truncated,
\* the registry entry of its command is completed and holds the returned
\* stdout, the exit code is 0 and the session is released.
C18_ForegroundReturnAfterAccumulator ==
  \A i \in CallIds :
    (/\ calls[i].pc = "returned"
     /\ calls[i].result.kind = "result"
     /\ ~calls[i].result.isBackground
     /\ ~calls[i].result.truncated)
      => /\ commands[calls[i].result.commandId].completed
         /\ commands[calls[i].result.commandId].output = calls[i].result.stdout
         /\ calls[i].result.exitCode = 0
         /\ (Holders(calls[i].terminalId) = {}
               => calls[i].terminalId \notin busyTerminals)

\* C19: in every state the busy set is a subset of the live session map,
\* also after a session was closed while a call was waiting on it.
C19_BusySubsetOfLive ==
  \A t \in busyTerminals : getTerminalById(t) # None

\* A call is still collecting from a session that has been closed.
C19_Witness ==
  \E i \in CallIds :
    /\ calls[i].pc = "collecting"
    /\ terminals[calls[i].terminalId].closed
    /\ calls[i].terminalId \notin busyTerminals
    /\ busyTerminals # {}

\* C20: acquisition is exclusive: findIdleTerminal never returns a busy
\* session, and the step in which a call acquires a session takes one that no
\* unreturned call holds and that is not busy, and leaves it marked busy.
C20_AcquireExclusive ==
  /\ [](\A shell \in Shells, wd \in RequestDirs :
          findIdleTerminal(TerminalName(shell), wd) \notin busyTerminals)
  /\ [][\A i \in CallIds :
          (calls[i].pc = "new" /\ calls'[i].terminalId # None)
            => /\ calls'[i].terminalId \notin busyTerminals
               /\ Holders(calls'[i].terminalId) = {}
               /\ calls'[i].terminalId \in busyTerminals'
               /\ \A j \in CallIds \ {i} :
                    calls'[j].terminalId = calls'[i].terminalId
                      => calls'[j].pc = "returned"]_vars

\* Two calls of the same shell are in flight at once, each in its own
\* session, both marked busy.
C20_Witness ==
  \E i \in CallIds : \E j \in CallIds :
    /\ i # j
    /\ calls[i].pc \in {"waitForShellIntegration", "collecting"}
    /\ calls[j].pc \in {"waitForShellIntegration", "collecting"}
    /\ calls[i].input.shell = calls[j].input.shell
    /\ calls[i].terminalId # calls[j].terminalId
    /\ {calls[i].terminalId, calls[j].terminalId} \subseteq busyTerminals

(***************************************************************************)
(* Timeouts.                                                               *)
(***************************************************************************)
\* Calls in every mode, with closeOnTimeout set or not.
TimeoutInputs ==
  {inp \in ToolInputs :
     /\ inp.shell = "pwsh" /\ ~inp.keepScript
     /\ (inp.isBackground => ~inp.hasTimeout)}

NextTimeout ==
  \/ \E i \in CallIds, inp \in TimeoutInputs : RunScript(i, inp)
  \/ \E i \in CallIds : ShellIntegrationChanged(i, NoDir)
  \/ \E c \in CallIds : StreamEnd(c, "ended")
  \/ \E t \in CallIds : CloseTerminal(t)
  \/ \E c \in CallIds : AccumulatorFinish(c)
  \/ \E i \in CallIds : ForegroundComplete(i)
  \/ \E i \in CallIds : Timeout(i)

SpecTimeout == Init /\ [][NextTimeout]_vars

\* C21: when the timeout fires while the stream is still open, the step that
\* returns the truncated result leaves the session out of the busy set,
\* whether or not closeOnTimeout is set, and the command is still registered
\* as not completed.
C21_TimeoutReleasesSession ==
  [][\A i \in CallIds :
       (/\ calls[i].pc = "collecting"
        /\ calls'[i].pc = "returned"
        /\ calls'[i].result.truncated
        /\ executions[calls[i].commandId].state = "open")
         => /\ calls[i].terminalId \notin busyTerminals'
            /\ calls'[i].result.commandId \in DOMAIN commands'
            /\ ~commands'[calls'[i].result.commandId].completed]_vars

\* Two calls have timed out in the same session, one with closeOnTimeout and
\* one without; both commands are still running and the session is not busy.
C21_Witness ==
  \E i \in CallIds : \E j \in CallIds :
    /\ calls[i].pc = "returned" /\ calls[i].result.truncated
    /\ calls[j].pc = "returned" /\ calls[j].result.truncated
    /\ calls[i].input.closeOnTimeout
    /\ ~calls[j].input.closeOnTimeout
    /\ calls[i].terminalId = calls[j].terminalId
    /\ ~commands[calls[i].commandId].completed
    /\ ~commands[calls[j].commandId].completed
    /\ getTerminalById(calls[i].terminalId) # None
    /\ calls[i].terminalId \notin busyTerminals

\* C22: on a timeout with closeOnTimeout = true the interrupt is sent into
\* the session while the session is still marked busy: the interrupt comes
\* before the release.
C22_InterruptWhileBusy ==
  \A k \in 1..Len(interrupts) : interrupts[k].wasBusy

\* C23: an interrupt is sent into a session only by a foreground call whose
\* timeout won the race against its output and that had closeOnTimeout set,
\* into the session of that call and at most once per call; never for a
\* background call, for a call that completed, or for a timeout with
\* closeOnTimeout = false.
C23_InterruptOnlyOnCloseOnTimeout ==
  /\ \A k \in 1..Len(interrupts) :
       LET i == interrupts[k].call
       IN /\ calls[i].pc = "returned"
          /\ calls[i].result.truncated
          /\ ~calls[i].input.isBackground
          /\ calls[i].input.hasTimeout
          /\ calls[i].input.closeOnTimeout
          /\ interrupts[k].terminalId = calls[i].terminalId
  /\ \A k \in 1..Len(interrupts) : \A l \in 1..Len(interrupts) :
       interrupts[k].call = interrupts[l].call => k = l

\* One call was interrupted on its timeout; another call with closeOnTimeout
\* set has completed in the same session without any interrupt.
C23_Witness ==
  \E i \in CallIds : \E j \in CallIds :
    /\ Len(interrupts) = 1
    /\ interrupts[1].call = i
    /\ calls[i].result.truncated
    /\ calls[j].pc = "returned"
    /\ calls[j].input.closeOnTimeout
    /\ calls[j].input.hasTimeout
    /\ ~calls[j].result.truncated
    /\ calls[j].terminalId = calls[i].terminalId

\* Foreground calls, with a timer or without, over streams that may yield,
\* end, or do neither.
TimerInputs == {inp \in TimeoutInputs : ~inp.isBackground}

NextTimer ==
  \/ \E i \in 1..MaxOutCalls, inp \in TimerInputs : RunScript(i, inp)
  \/ \E i \in CallIds : ShellIntegrationChanged(i, NoDir)
  \/ \E c \in CallIds : StreamData(c)
  \/ \E c \in CallIds : StreamEnd(c, "ended")
  \/ \E c \in CallIds : AccumulatorRead(c)
  \/ \E c \in CallIds : AccumulatorFinish(c)
  \/ \E i \in CallIds : ForegroundRead(i)
  \/ \E i \in CallIds : ForegroundComplete(i)
  \/ \E i \in CallIds : Timeout(i)

\* A timer that was set fires: setTimeout(() => resolve('timeout'), timeoutMs).
\* The host owes nothing: a stream may never yield and never end.
FairTimer == \A i \in CallIds : WF_vars(Timeout(i))

SpecTimer == Init /\ [][NextTimer]_vars /\ FairTimer

\* C29: a foreground call with a timeout that has been dispatched into a
\* ready session eventually returns, even if the stream never ends; once it
\* has returned it waits on the output no longer.
C29_TimedCallReturns ==
  /\ \A i \in CallIds :
       (calls[i].pc = "collecting" /\ calls[i].input.hasTimeout)
         ~> (calls[i].pc = "returned")
  /\ [][\A i \in CallIds :
          calls[i].pc = "returned"
            => /\ calls'[i].pc = "returned"
               /\ calls'[i].result = calls[i].result]_vars

\* A timed call has returned its truncated result and the stream, still
\* open, has yielded a chunk since that the result does not hold.
C29_Witness ==
  \E i \in CallIds :
    /\ calls[i].pc = "returned"
    /\ calls[i].input.hasTimeout
    /\ calls[i].result.truncated
    /\ executions[calls[i].commandId].state = "open"
    /\ Len(calls[i].result.stdout) < executions[calls[i].commandId].emitted

(***************************************************************************)
(* getOutput with and without waiting.                                     *)
(***************************************************************************)
\* Background calls: their command ids are returned while the command runs.
WaitInputs == {inp \in OutInputs : inp.isBackground}

NextWait ==
  \/ \E i \in 1..MaxOutCalls, inp \in WaitInputs : RunScript(i, inp)
  \/ \E i \in CallIds : ShellIntegrationChanged(i, NoDir)
  \/ \E c \in CallIds : StreamData(c)
  \/ \E c \in CallIds : StreamEnd(c, "ended")
  \/ \E t \in CallIds : CloseTerminal(t)
  \/ \E c \in CallIds : AccumulatorRead(c)
  \/ \E c \in CallIds : AccumulatorFinish(c)
  \/ \E c \in ReturnedCommandIds, w \in BOOLEAN : GetOutput(c, w)
  \/ \E c \in CallIds : GetOutputResume(c)

SpecWait == Init /\ [][NextWait]_vars

\* C27 as stated: getOutput on a known command returns its output; with
\* waitForCompletion = true only after completed is true, reporting status
\* completed; with waitForCompletion = false without waiting, reporting
\* status running exactly when completed is false.
C27_GetOutputWaitSemantics ==
  \A c \in DOMAIN commands : \A r \in GotResults(c) :
    /\ r.kind = "output"
    /\ r.waitForCompletion => r.status = "completed"
    /\ ~r.waitForCompletion => (r.status = "running" <=> ~r.completedAtCall)

\* C27: while the command's session is in the pool, getOutput returns the
\* command's output: with waitForCompletion = true only after completed is
\* true, with status completed and the whole output; with waitForCompletion
\* = false without waiting, with status running exactly when completed is
\* false and the output accumulated so far.  A call suspends only on a
\* command that has not completed.  Called after the session was closed,
\* getOutput returns "terminal not found" instead.
C27_GetOutputWaitSemanticsWhileLive ==
  \A c \in DOMAIN commands :
    /\ c \in waiters => getCommand(c) # None
    /\ \A r \in GotResults(c) :
         IF r.kind = "output"
           THEN /\ IsPrefix(r.output, commands[c].output)
                /\ r.waitForCompletion
                     => /\ r.status = "completed"
                        /\ commands[c].completed
                        /\ r.output = commands[c].output
                /\ ~r.waitForCompletion
                     => (r.status = "running" <=> ~r.completedAtCall)
                /\ r.status = "completed" => r.output = commands[c].output
           ELSE /\ r.kind = "terminalNotFound"
                /\ terminals[commands[c].terminalId].closed

\* A call without waiting returned status running; a later call that waited
\* returned status completed with a longer output.
C27_Witness ==
  \E c \in DOMAIN commands :
    /\ got[c].prev.kind = "output"
    /\ ~got[c].prev.waitForCompletion
    /\ got[c].prev.status = "running"
    /\ got[c].last.kind = "output"
    /\ got[c].last.waitForCompletion
    /\ ~got[c].last.completedAtCall
    /\ got[c].last.status = "completed"
    /\ Len(got[c].last.output) > Len(got[c].prev.output)

(***************************************************************************)
(* Completion of commands.                                                 *)
(***************************************************************************)
\* Calls in every mode over streams that end or error, and callers that
\* wait for the commands whose ids they hold.
NextCompletion ==
  \/ \E i \in 1..MaxOutCalls, inp \in FailInputs : RunScript(i, inp)
  \/ \E i \in CallIds : ShellIntegrationChanged(i, NoDir)
  \/ \E c \in CallIds, how \in {"ended", "errored"} : StreamEnd(c, how)
  \/ \E c \in CallIds : AccumulatorFinish(c)
  \/ \E i \in CallIds : ForegroundComplete(i)
  \/ \E i \in CallIds : Timeout(i)
  \/ \E c \in ReturnedCommandIds : GetOutput(c, TRUE)
  \/ \E c \in CallIds : GetOutputResume(c)

\* The event loop runs a continuation that is ready: an accumulator whose
\* stream has ended, a caller whose completionPromise has resolved.  The
\* host owes nothing: a stream may never end.
FairCompletion ==
  /\ \A c \in CallIds : WF_vars(AccumulatorFinish(c))
  /\ \A c \in CallIds : WF_vars(GetOutputResume(c))

SpecCompletion == Init /\ [][NextCompletion]_vars /\ FairCompletion

\* The same calls over streams that also yield chunks, read by both readers.
NextStream ==
  \/ \E i \in 1..MaxOutCalls, inp \in FailInputs : RunScript(i, inp)
  \/ \E i \in CallIds : ShellIntegrationChanged(i, NoDir)
  \/ \E c \in CallIds : StreamData(c)
  \/ \E c \in CallIds, how \in {"ended", "errored"} : StreamEnd(c, how)
  \/ \E c \in CallIds : AccumulatorRead(c)
  \/ \E c \in CallIds : AccumulatorFinish(c)
  \/ \E i \in CallIds : ForegroundRead(i)
  \/ \E i \in CallIds : ForegroundComplete(i)
  \/ \E i \in CallIds : Timeout(i)
  \/ \E c \in ReturnedCommandIds : GetOutput(c, TRUE)
  \/ \E c \in CallIds : GetOutputResume(c)

SpecStream == Init /\ [][NextStream]_vars

\* C24: for every registered command, once its output stream has ended or
\* errored, completed eventually becomes true, and every caller waiting in
\* getOutput(waitForCompletion = true) eventually returns with the status
\* completed; also for a command whose foreground wait lost the race to the
\* timeout.
C24_CompletionReached ==
  \A c \in CallIds :
    /\ (c \in DOMAIN commands /\ executions[c].state # "open")
         ~> (c \in DOMAIN commands /\ commands[c].completed)
    /\ (c \in waiters /\ executions[c].state # "open")
         ~> (/\ c \notin waiters
             /\ got[c].last.kind = "output"
             /\ got[c].last.status = "completed")

\* A foreground call lost the race to its timeout, a caller then waited for
\* its command, the stream errored, and the caller has returned.
C24_Witness ==
  \E i \in CallIds :
    /\ calls[i].pc = "returned"
    /\ calls[i].result.truncated
    /\ executions[calls[i].commandId].state = "errored"
    /\ commands[calls[i].commandId].completed
    /\ calls[i].commandId \notin waiters
    /\ got[calls[i].commandId].last.waitForCompletion
    /\ ~got[calls[i].commandId].last.completedAtCall
    /\ got[calls[i].commandId].last.status = "completed"

\* C25: the completed flag of a command is monotonic: it starts false, a
\* step never turns it from true to false, so it becomes true at most once,
\* and the only step that changes it is the finish of that command's own
\* accumulator.
C25_CompletedMonotonic ==
  [][\A c \in DOMAIN commands' :
       IF c \in DOMAIN commands
         THEN /\ commands[c].completed => commands'[c].completed
              /\ commands'[c].completed # commands[c].completed
                   => AccumulatorFinish(c)
         ELSE ~commands'[c].completed]_vars

\* The accumulator has completed a command with its whole output while the
\* foreground reader of the same command is still collecting.
C25_Witness ==
  \E i \in CallIds :
    /\ calls[i].pc = "collecting"
    /\ commands[calls[i].commandId].completed
    /\ Len(commands[calls[i].commandId].output) = MaxChunks
    /\ Len(calls[i].output) < MaxChunks

C28_StreamErrorIsCompletion ==
  /\ \A c \in DOMAIN commands :
       executions[c].state = "errored"
         => /\ (~commands[c].completed /\ executions[c].bgPos = executions[c].emitted)
                 => ENABLED AccumulatorFinish(c)
            /\ commands[c].completed
                 => commands[c].output = Chunks(c, executions[c].emitted)
  /\ \A i \in CallIds :
       /\ calls[i].pc # "threw"
       /\ (/\ calls[i].pc = "collecting"
           /\ executions[calls[i].commandId].state = "errored"
           /\ Len(calls[i].output) = executions[calls[i].commandId].emitted)
            => ENABLED ForegroundComplete(i)
       /\ (/\ calls[i].pc = "returned"
           /\ ~calls[i].input.isBackground
           /\ executions[calls[i].commandId].state = "errored"
           /\ ~calls[i].result.truncated)
            => /\ calls[i].result.kind = "result"
               /\ calls[i].result.exitCode = 0
               /\ calls[i].result.stdout =
                    Chunks(calls[i].commandId, executions[calls[i].commandId].emitted)
               /\ calls[i].result.commandId = calls[i].commandId
               /\ getCommand(calls[i].result.commandId) # None
               /\ (\A j \in CallIds \ {i} :
                      calls[j].terminalId # calls[i].terminalId)
                     => calls[i].terminalId \notin busyTerminals

\* A stream errored after a chunk; the foreground call has returned that
\* chunk with exit code 0 and the command is completed with the same output.
C28_Witness ==
  \E i \in CallIds :
    /\ calls[i].pc = "returned"
    /\ ~calls[i].input.isBackground
    /\ ~calls[i].result.truncated
    /\ executions[calls[i].commandId].state = "errored"
    /\ executions[calls[i].commandId].emitted > 0
    /\ calls[i].result.stdout = commands[calls[i].commandId].output
    /\ commands[calls[i].commandId].completed
    /\ calls[i].terminalId \notin busyTerminals

(***************************************************************************)
(* Closing sessions.                                                       *)
(***************************************************************************)
\* Calls of one shell in every mode, and terminals the host closes at any
\* moment: while a call waits for it, collects from it, or after its return.
NextClose ==
  \/ \E i \in CallIds, inp \in FailInputs : RunScript(i, inp)
  \/ \E i \in CallIds : ShellIntegrationChanged(i, NoDir)
  \/ \E c \in CallIds : StreamEnd(c, "ended")
  \/ \E t \in CallIds : CloseTerminal(t)
  \/ \E c \in CallIds : AccumulatorFinish(c)
  \/ \E i \in CallIds : ForegroundComplete(i)
  \/ \E i \in CallIds : Timeout(i)

SpecClose == Init /\ [][NextClose]_vars

\* The ids in the live map.
Live == {activeTerminals[k] : k \in 1..Len(activeTerminals)}

\* C30: the step in which a session is closed removes its id from the live
\* map and from the busy set together and leaves every other session's
\* entries as they were, also while a call is waiting on the session or
\* collecting from it; a closed session stays closed and out of both, so the
\* listener takes effect once; and an id leaves the live map in no other
\* step.
C30_CloseListener ==
  /\ [](\A t \in DOMAIN terminals :
          terminals[t].closed => (t \notin Live /\ t \notin busyTerminals))
  /\ [][\A t \in DOMAIN terminals :
          /\ terminals[t].closed => terminals'[t].closed
          /\ (~terminals[t].closed /\ terminals'[t].closed)
               => /\ Live' = Live \ {t}
                  /\ busyTerminals' = busyTerminals \ {t}
                  /\ SelectSeq(activeTerminals', LAMBDA u : u # t)
                       = SelectSeq(activeTerminals, LAMBDA u : u # t)
          /\ (t \in Live /\ t \notin Live')
               => (~terminals[t].closed /\ terminals'[t].closed)]_vars

\* A session was closed while a call collects from it: it is out of the map
\* and of the busy set, while the session of another call in flight is still
\* in both.
C30_Witness ==
  \E i \in CallIds : \E j \in CallIds :
    /\ calls[i].pc = "collecting"
    /\ terminals[calls[i].terminalId].closed
    /\ calls[i].terminalId \notin Live
    /\ calls[i].terminalId \notin busyTerminals
    /\ calls[j].pc \in {"waitForShellIntegration", "collecting"}
    /\ calls[j].terminalId # calls[i].terminalId
    /\ calls[j].terminalId \in Live
    /\ calls[j].terminalId \in busyTerminals

CommandIdSpace == CallIds

\* The draws followed here: an id that is new, or the id of a command that
\* has completed and that no caller is collecting from or waiting for.
Drawn(commandId) ==
  commandId \in DOMAIN commands
    => /\ commands[commandId].completed
       /\ commandId \notin waiters
       /\ \A j \in CallIds :
            calls[j].commandId = commandId => calls[j].pc = "returned"

RunScriptDrawn(i, inp, commandId) ==
  Drawn(commandId) /\ RunScriptAs(i, inp, commandId)

ShellIntegrationChangedDrawn(i, cwd, commandId) ==
  Drawn(commandId) /\ ShellIntegrationChangedAs(i, cwd, commandId)

\* Background calls whose command ids are random draws, callers that ask for
\* the output of the ids they hold, and terminals that close.
NextIds ==
  \/ \E i \in CallIds, inp \in WaitInputs, commandId \in CommandIdSpace :
       RunScriptDrawn(i, inp, commandId)
  \/ \E i \in CallIds, commandId \in CommandIdSpace :
       ShellIntegrationChangedDrawn(i, NoDir, commandId)
  \/ \E c \in CallIds : StreamEnd(c, "ended")
  \/ \E t \in CallIds : CloseTerminal(t)
  \/ \E c \in CallIds : AccumulatorFinish(c)
  \/ \E c \in ReturnedCommandIds : GetOutput(c, TRUE)
  \/ \E c \in CallIds : GetOutputResume(c)

SpecIds == Init /\ [][NextIds]_vars

\* C32: command ids are unique per call: no two calls get the same id, and a
\* command id returned to a caller denotes, in the registry, the command of
\* that caller's call.
C32_CommandIdsUnique ==
  /\ \A i \in CallIds : \A j \in CallIds :
       (i # j /\ calls[i].commandId # None) => calls[i].commandId # calls[j].commandId
  /\ \A i \in CallIds :
       (calls[i].pc = "returned" /\ calls[i].result.kind = "result")
         => commands[calls[i].result.commandId].scriptPath = ScriptPath(i)

SpelledDirs ==
  {<<"/", "a">>, <<"\\", "a", "\\">>, <<"/", "a", "/", "/">>}

PathInputs ==
  {inp \in [viaTool: {FALSE}, shell: {"pwsh"}, workingDirectory: SpelledDirs,
            hasTimeout: {FALSE}, keepScript: {FALSE}, isBackground: {FALSE},
            closeOnTimeout: {FALSE}] : TRUE}

\* Foreground calls that request the spellings, in sessions whose working
\* directory the host reports.
NextPaths ==
  \/ \E i \in CallIds, inp \in PathInputs : RunScript(i, inp)
  \/ \E i \in CallIds, cwd \in HostDirs : ShellIntegrationChanged(i, cwd)
  \/ \E c \in CallIds : StreamEnd(c, "ended")
  \/ \E c \in CallIds : AccumulatorFinish(c)
  \/ \E i \in CallIds : ForegroundComplete(i)

SpecPaths == InitAnyPlatform /\ [][NextPaths]_vars

\* C34: path normalization is idempotent on every working directory a call
\* requests: normalizing the normalized path changes nothing, so that every
\* spelling of a directory has one normal form.
C34_NormalizeIdempotent ==
  \A i \in CallIds :
    calls[i].pc # "new"
      => normalizePath(normalizePath(calls[i].input.workingDirectory))
           = normalizePath(calls[i].input.workingDirectory)

(***************************************************************************)
(* The command line of a script.                                           *)
(***************************************************************************)
\* The members of ShellType.
ShellType == {"pwsh", "bash", "zsh", "fish", "cmd", "wsl", "gitbash", "unknown"}

\* The characters of the script paths: a drive letter in either case, the
\* colon and the two separators.
PathChars == {"A", "a", ":", "\\", "/"}

RECURSIVE PathsOfLen(_)
PathsOfLen(n) ==
  IF n = 0 THEN {<<>>}
  ELSE {Append(p, ch) : p \in PathsOfLen(n - 1), ch \in PathChars}

ScriptPaths == UNION {PathsOfLen(n) : n \in 0..MaxLen}

\* s.replace(/^([A-Z]):/, (_, letter) => `/mnt/${letter.toLowerCase()}`)
ReplaceDrive(s) ==
  IF Len(s) >= 2 /\ s[1] \in {"A", "B"} /\ s[2] = ":"
    THEN <<"/", "m", "n", "t", "/", toLowerCase(s[1])>> \o SubSeq(s, 3, Len(s))
    ELSE s

\* The returned command line: the text before the path, the characters of
\* the path, the text after it.
buildScriptCommand(scriptPath, shellType, executingFromShell) ==
  CASE shellType = "pwsh" ->
         <<"pwsh -NoProfile -ExecutionPolicy Bypass -File \"">> \o scriptPath
           \o <<"\" *>&1 | Out-Host">>
    [] shellType \in {"bash", "zsh"} ->
         <<"bash \"">> \o scriptPath \o <<"\" 2>&1">>
    [] shellType = "fish" ->
         <<"fish \"">> \o scriptPath \o <<"\" 2>&1">>
    [] shellType = "wsl" ->
         LET wslPath == ReplaceDrive(ReplaceBackslashes(scriptPath))
         IN <<"wsl bash -c 'bash \"">> \o wslPath \o <<"\" 2>&1'">>
    [] shellType = "gitbash" ->
         LET gitBashPath == ReplaceBackslashes(scriptPath)
         IN IF executingFromShell = "pwsh"
              THEN <<"& \"$env:ProgramFiles\\Git\\bin\\bash.exe\" -c 'bash \"">>
                     \o gitBashPath \o <<"\" 2>&1'">>
              ELSE <<"bash \"">> \o gitBashPath \o <<"\" 2>&1">>
    [] shellType = "cmd" ->
         <<"cmd /c \"">> \o scriptPath \o <<"\" 2>&1">>
    [] OTHER ->
         <<"bash \"">> \o scriptPath \o <<"\" 2>&1">>

\* The arguments of a buildScriptCommand call that has not been made yet.
InitDialect ==
  /\ platform = "win32"
  /\ terminals = <<>>
  /\ activeTerminals = <<>>
  /\ busyTerminals = {}
  /\ commands = <<>>
  /\ executions = <<>>
  /\ files = {}
  /\ calls = [i \in CallIds |->
               [pc |-> "new", input |-> NoInput, terminalId |-> None,
                isNewTerminal |-> FALSE, commandId |-> None, output |-> <<>>,
                result |-> NoResult]]
  /\ interrupts = <<>>
  /\ waiters = {}
  /\ got = [c \in CallIds |-> [prev |-> NoGot, last |-> NoGot]]
  /\ built \in [called: {FALSE}, scriptPath: ScriptPaths, shellType: ShellType,
                executingFromShell: {"unknown", "pwsh"}, command: {<<>>}]

\* The call of buildScriptCommand on those arguments.
BuildScriptCommand ==
  /\ ~built.called
  /\ built' = [built EXCEPT
                 !.called = TRUE,
                 !.command = buildScriptCommand(built.scriptPath, built.shellType,
                                                built.executingFromShell)]
  /\ UNCHANGED <<platform, terminals, activeTerminals, busyTerminals, commands,
                 executions, files, calls, interrupts, waiters, got>>

NextDialect == BuildScriptCommand

SpecDialect == InitDialect /\ [][NextDialect]_vars

\* The path inside a built command line.
PathIn(command) == SubSeq(command, 2, Len(command) - 1)

\* A host path that begins with a drive letter.
HasDrive(p) == Len(p) >= 2 /\ p[1] \in {"A", "a"} /\ p[2] = ":"

\* C35: for target shell WSL every script path that begins with a drive
\* letter, in either case, is in the command as /mnt/<lowercase letter>
\* followed by the rest of the path with every backslash turned into a slash.
C35_WslPathTranslated ==
  (built.called /\ built.shellType = "wsl" /\ HasDrive(built.scriptPath))
    => PathIn(built.command)
         = <<"/", "m", "n", "t", "/", toLowerCase(built.scriptPath[1])>>
             \o ReplaceBackslashes(SubSeq(built.scriptPath, 3,
                                          Len(built.scriptPath)))

(***************************************************************************)
(* Interrupts, timed-out output, closed sessions, names, the live map.     *)
(***************************************************************************)
\* C36 as stated: when an interrupt is sent into a session for a call that
\* timed out with closeOnTimeout, that call's command is the only command of
\* the session that has not completed.
C36_InterruptHitsOnlyOwnCommand ==
  [][Len(interrupts') > Len(interrupts)
       => LET r == interrupts'[Len(interrupts')]
          IN Uncompleted(r.terminalId) \subseteq {calls[r.call].commandId}]_vars

\* C36: when an interrupt is sent into a session, the call it is sent for is
\* the only call that holds the session: every other command of the session
\* that has not completed is the command of a call that has returned.
C36_InterruptInOwnSession ==
  [][Len(interrupts') > Len(interrupts)
       => LET r == interrupts'[Len(interrupts')]
          IN /\ Holders(r.terminalId) = {r.call}
             /\ \A c \in Uncompleted(r.terminalId) \ {calls[r.call].commandId} :
                  \E j \in CallIds \ {r.call} :
                    /\ calls[j].commandId = c
                    /\ calls[j].pc = "returned"]_vars

\* A call was interrupted in a session where the command of an earlier call,
\* timed out without closeOnTimeout, is still running.
C36_Witness ==
  \E k \in 1..Len(interrupts) : \E j \in CallIds :
    /\ j # interrupts[k].call
    /\ calls[j].pc = "returned"
    /\ calls[j].result.truncated
    /\ ~calls[j].input.closeOnTimeout
    /\ calls[j].terminalId = interrupts[k].terminalId
    /\ calls[j].commandId \in Uncompleted(interrupts[k].terminalId)
    /\ calls[interrupts[k].call].commandId \in Uncompleted(interrupts[k].terminalId)

\* C37: the stdout a foreground call returned on its timeout is a prefix of
\* the output the registry holds for its command id once that command has
\* completed.
C37_TimedOutStdoutIsPrefix ==
  \A i \in CallIds :
    (/\ calls[i].pc = "returned"
     /\ calls[i].result.kind = "result"
     /\ calls[i].result.truncated
     /\ commands[calls[i].result.commandId].completed)
      => IsPrefix(calls[i].result.stdout,
                  commands[calls[i].result.commandId].output)

\* A foreground call returned on its timeout with every chunk the stream had
\* yielded; the command completed afterwards with that same output.
C37_Witness ==
  \E i \in CallIds :
    /\ calls[i].pc = "returned"
    /\ calls[i].result.truncated
    /\ Len(calls[i].result.stdout) = MaxChunks
    /\ commands[calls[i].result.commandId].completed
    /\ executions[calls[i].result.commandId].state = "ended"
    /\ commands[calls[i].result.commandId].output = calls[i].result.stdout

\* C38: getOutput for a registered command returns 'terminal not found'
\* exactly when the command's session is absent from the live map at the time
\* of the call, whether or not the command has completed and output is held
\* for it; it returns output, or suspends to return it, only when the session
\* is in the live map at the time of the call.
C38_TerminalNotFoundWhenSessionAbsent ==
  [][\A c \in DOMAIN commands :
       /\ (got'[c] # got[c] /\ waiters' = waiters)
            => (got'[c].last.kind = "terminalNotFound"
                  <=> commands[c].terminalId \notin Live)
       /\ (c \in waiters' /\ c \notin waiters)
            => commands[c].terminalId \in Live]_vars

\* getOutput returned 'terminal not found' for a command that had completed
\* and whose output the registry holds.
C38_Witness ==
  \E c \in DOMAIN commands :
    /\ got[c].last.kind = "terminalNotFound"
    /\ got[c].last.completedAtCall
    /\ commands[c].completed
    /\ Len(commands[c].output) > 0
    /\ commands[c].terminalId \notin Live

\* Calls for either shell kind, in the foreground or the background, with no
\* timer and no working directory.
ShellInputs == {inp \in PoolInputs : ~inp.hasTimeout}

NextShells ==
  \/ \E i \in CallIds, inp \in ShellInputs : RunScript(i, inp)
  \/ \E i \in CallIds : ShellIntegrationChanged(i, NoDir)
  \/ \E c \in CallIds : StreamEnd(c, "ended")
  \/ \E t \in CallIds : CloseTerminal(t)
  \/ \E c \in CallIds : AccumulatorFinish(c)
  \/ \E i \in CallIds : ForegroundComplete(i)

SpecShells == Init /\ [][NextShells]_vars

\* The live sessions a call for shell kind K may reuse: named for K, not busy.
IdleNamed(K) ==
  {t \in Live : /\ StartsWith(terminals[t].name, TerminalName(K))
                /\ t \notin busyTerminals}

\* C39: a call for shell kind K gets a session whose name starts with
\* 'Script Runner (K)' and keeps it: a session it reuses was live, idle and
\* named for K, and it creates a session only when no live idle session named
\* for K exists.
C39_SessionNamedForShell ==
  /\ [](\A i \in CallIds :
          calls[i].terminalId # None
            => StartsWith(terminals[calls[i].terminalId].name,
                          TerminalName(calls[i].input.shell)))
  /\ [][\A i \in CallIds :
          (calls[i].pc = "new" /\ calls'[i].pc # "new")
            => IF calls'[i].terminalId \in DOMAIN terminals
                 THEN /\ ~calls'[i].isNewTerminal
                      /\ calls'[i].terminalId \in IdleNamed(calls'[i].input.shell)
                 ELSE /\ calls'[i].isNewTerminal
                      /\ IdleNamed(calls'[i].input.shell) = {}]_vars

\* The session of a returned call for one shell kind is live and idle beside
\* the session a later call for the other kind created and still waits for,
\* each named for its call's kind.
C39_Witness ==
  \E i \in CallIds : \E j \in CallIds :
    /\ calls[i].pc = "returned"
    /\ calls[i].terminalId \in Live
    /\ calls[i].terminalId \notin busyTerminals
    /\ calls[j].isNewTerminal
    /\ calls[j].pc = "waitForShellIntegration"
    /\ calls[j].terminalId \in Live
    /\ calls[j].terminalId > calls[i].terminalId
    /\ calls[j].input.shell # calls[i].input.shell
    /\ StartsWith(terminals[calls[j].terminalId].name,
                  TerminalName(calls[j].input.shell))

\* C40: executeInTerminal never removes a session from the live map: every
\* session created and not closed is in it, whatever the calls that used it
\* have done; after a foreground call has completed, timed out or timed out
\* with an interrupt, its session, unless closed, is live and, when no other
\* call has acquired it since, idle and a session the next call of that name
\* can be given.
C40_OnlyCloseRemovesSession ==
  /\ \A t \in DOMAIN terminals : ~terminals[t].closed => t \in Live
  /\ \A i \in CallIds :
       (/\ calls[i].pc = "returned"
        /\ ~calls[i].input.isBackground
        /\ ~terminals[calls[i].terminalId].closed
        /\ \A j \in CallIds \ {i} : calls[j].terminalId # calls[i].terminalId)
         => /\ calls[i].terminalId \in Live
            /\ calls[i].terminalId \notin busyTerminals
            /\ calls[i].terminalId \in IdleNamed(calls[i].input.shell)
            /\ findIdleTerminal(TerminalName(calls[i].input.shell), NoDir) # None

\* A session that took an interrupt on the timeout of one call is still live
\* and has been reused by a later call, which completed there.
C40_Witness ==
  \E i \in CallIds : \E j \in CallIds :
    /\ Len(interrupts) = 1
    /\ interrupts[1].call = i
    /\ calls[j].pc = "returned"
    /\ ~calls[j].isNewTerminal
    /\ ~calls[j].result.truncated
    /\ ~calls[j].input.isBackground
    /\ calls[j].terminalId = calls[i].terminalId
    /\ calls[j].terminalId \in Live
    /\ calls[j].terminalId \notin busyTerminals

====
